---------------------------- MODULE Spec2Model ----------------------------
(***************************************************************************)
(* A model of src/index.ts: the option normalizer (normalizeOptions and    *)
(* its coercers), the unit labeler (label, plural) and the duration        *)
(* formatter (formatCompactDuration).                                      *)
(*                                                                         *)
(* JavaScript values are records [t, c, n, d, s, b]: t is the typeof kind  *)
(* ("null" for null), and for numbers c is the class (finite, nan, inf,    *)
(* -inf) and n/d the value as a fraction with d > 0.  A call either        *)
(* returns or throws; every operator that may throw returns a record with  *)
(* a field "thrown".                                                       *)
(***************************************************************************)
EXTENDS Integers, Sequences, FiniteSets, TLC

VARIABLES
    pc,      \* "ready" before the call, "done" after it, "again" after a second normalization
    op,      \* which function the run applies: "format" or "normalize"
    input,   \* the first argument of formatCompactDuration (a JavaScript value)
    opts,    \* the options argument (a JavaScript value: undefined, null or an object)
    norm,    \* the result of normalizeOptions(opts)
    ret,     \* the outcome of formatCompactDuration(input, opts)
    norm2    \* the result of normalizeOptions applied to norm

vars == <<pc, op, input, opts, norm, ret, norm2>>

---------------------------------------------------------------------------
(* JavaScript values *)

JS(t, c, n, d, s, b) == [t |-> t, c |-> c, n |-> n, d |-> d, s |-> s, b |-> b]

Undefined == JS("undefined", "", 0, 1, "", FALSE)
Null      == JS("null", "", 0, 1, "", FALSE)
Bool(b)   == JS("boolean", "", 0, 1, "", b)
Num(n)    == JS("number", "finite", n, 1, "", FALSE)
Frac(n, d) == JS("number", "finite", n, d, "", FALSE)
NaN       == JS("number", "nan", 0, 1, "", FALSE)
PosInf    == JS("number", "inf", 0, 1, "", FALSE)
NegInf    == JS("number", "-inf", 0, 1, "", FALSE)
Str(s)    == JS("string", "", 0, 1, s, FALSE)
Obj       == JS("object", "", 0, 1, "", FALSE)
Sym       == JS("symbol", "", 0, 1, "", FALSE)

\* The strings of the model that Number() reads as a numeric literal, with their value.
NumericStrings == {"", "0", "1", "2", "31", "5000"}

StringToNumber(s) ==
    CASE s = ""     -> Num(0)
      [] s = "0"    -> Num(0)
      [] s = "1"    -> Num(1)
      [] s = "2"    -> Num(2)
      [] s = "31"   -> Num(31)
      [] s = "5000" -> Num(5000)
      [] OTHER      -> NaN

\* Number(v): ToNumber of a value that is not a number.  A symbol throws a
\* TypeError; a plain object converts through "[object Object]" to NaN.
ToNumber(v) ==
    CASE v.t = "number"    -> [thrown |-> FALSE, val |-> v]
      [] v.t = "undefined" -> [thrown |-> FALSE, val |-> NaN]
      [] v.t = "null"      -> [thrown |-> FALSE, val |-> Num(0)]
      [] v.t = "boolean"   -> [thrown |-> FALSE, val |-> IF v.b THEN Num(1) ELSE Num(0)]
      [] v.t = "string"    -> [thrown |-> FALSE, val |-> StringToNumber(v.s)]
      [] v.t = "object"    -> [thrown |-> FALSE, val |-> NaN]
      [] OTHER             -> [thrown |-> TRUE, val |-> NaN]

\* Math.trunc of the fraction n/d (d > 0): toward zero.
Trunc(n, d) == IF n >= 0 THEN n \div d ELSE -((-n) \div d)

Max(a, b) == IF a >= b THEN a ELSE b

\* v === 1
IsOne(v) == v.t = "number" /\ v.c = "finite" /\ v.n = v.d

---------------------------------------------------------------------------
(* Helpers *)

plural(n, s, p) == IF n = 1 THEN s ELSE p

label(unit, value, style) ==
    IF style = "long"
    THEN CASE unit = "second" -> plural(value, "second", "seconds")
           [] unit = "minute" -> plural(value, "minute", "minutes")
           [] unit = "hour"   -> plural(value, "hour", "hours")
           [] unit = "day"    -> plural(value, "day", "days")
           [] unit = "month"  -> plural(value, "month", "months")
           [] unit = "year"   -> plural(value, "year", "years")
    ELSE CASE unit = "second" -> "sec"
           [] unit = "minute" -> IF value = 1 THEN "min" ELSE "mins"
           [] unit = "hour"   -> IF value = 1 THEN "hr" ELSE "hrs"
           [] unit = "day"    -> IF value = 1 THEN "day" ELSE "days"
           [] unit = "month"  -> IF value = 1 THEN "month" ELSE "months"
           [] unit = "year"   -> IF value = 1 THEN "year" ELSE "years"

(* Defensive coercers *)

toInt(n, fallback) ==
    LET x == IF n.t = "number" THEN [thrown |-> FALSE, val |-> n] ELSE ToNumber(n)
    IN  IF x.thrown THEN [thrown |-> TRUE, val |-> 0]
        ELSE IF x.val.c = "finite"
             THEN [thrown |-> FALSE, val |-> Trunc(x.val.n, x.val.d)]
             ELSE [thrown |-> FALSE, val |-> fallback]

clampMinInt(n, min, fallback) ==
    LET v == toInt(n, fallback)
    IN  IF v.thrown THEN v ELSE [thrown |-> FALSE, val |-> Max(min, v.val)]

toBool(v, fallback) == IF v.t = "boolean" THEN v.b ELSE fallback

toStyle(v, fallback) ==
    IF v.t = "string" /\ (v.s = "long" \/ v.s = "short") THEN v.s ELSE fallback

toRounding(v, fallback) ==
    IF v.t = "string" /\ (v.s = "floor" \/ v.s = "nearest" \/ v.s = "ceil")
    THEN v.s ELSE fallback

toStringOr(v, fallback) == IF v.t = "string" THEN v.s ELSE fallback

toInputUnit(v, fallback) ==
    IF v.t = "string" /\ (v.s = "sec" \/ v.s = "ms") THEN v.s ELSE fallback

---------------------------------------------------------------------------
(* Option objects *)

\* A calendar value: t is its kind; the two fields are what reading
\* cal.daysPerMonth and cal.monthsPerYear gives (Undefined when absent, and
\* for every kind that is not an object).
Calendar(t, dpm, mpy) == [t |-> t, daysPerMonth |-> dpm, monthsPerYear |-> mpy]

NoCalendar == Calendar("undefined", Undefined, Undefined)

\* An options value: t is its kind; each field is what reading o.<field>
\* gives (Undefined when the key is absent).
EmptyOptions ==
    [t |-> "object", inputUnit |-> Undefined, maxUnits |-> Undefined,
     minOneMinute |-> Undefined, style |-> Undefined, delimiter |-> Undefined,
     allowZero |-> Undefined, calendar |-> NoCalendar,
     roundSubHourToMinutes |-> Undefined, minuteRounding |-> Undefined]

\* opts ?? {} and o.calendar ?? {}: null and undefined read as the empty object.
OrEmpty(o) == IF o.t \in {"undefined", "null"} THEN EmptyOptions ELSE o

CalOrEmpty(c) ==
    IF c.t \in {"undefined", "null"} THEN Calendar("object", Undefined, Undefined) ELSE c

normalizeOptions(options) ==
    LET o == OrEmpty(options)
        cal == CalOrEmpty(o.calendar)
        dpm == clampMinInt(cal.daysPerMonth, 1, 30)
        mpy == clampMinInt(cal.monthsPerYear, 1, 12)
    IN  [thrown |-> dpm.thrown \/ mpy.thrown,
         inputUnit |-> toInputUnit(o.inputUnit, "ms"),
         maxUnits |-> IF IsOne(o.maxUnits) THEN 1 ELSE 2,
         minOneMinute |-> toBool(o.minOneMinute, TRUE),
         style |-> toStyle(o.style, "short"),
         delimiter |-> toStringOr(o.delimiter, " "),
         allowZero |-> toBool(o.allowZero, FALSE),
         calDaysPerMonth |-> dpm.val,
         calMonthsPerYear |-> mpy.val,
         roundSubHourToMinutes |-> toBool(o.roundSubHourToMinutes, TRUE),
         minuteRounding |-> toRounding(o.minuteRounding, "ceil")]

\* The object normalizeOptions returns, read as an options argument: its keys
\* calDaysPerMonth and calMonthsPerYear are not keys normalizeOptions reads,
\* and it has no key "calendar".
AsOptions(r) ==
    [t |-> "object", inputUnit |-> Str(r.inputUnit), maxUnits |-> Num(r.maxUnits),
     minOneMinute |-> Bool(r.minOneMinute), style |-> Str(r.style),
     delimiter |-> Str(r.delimiter), allowZero |-> Bool(r.allowZero),
     calendar |-> NoCalendar,
     roundSubHourToMinutes |-> Bool(r.roundSubHourToMinutes),
     minuteRounding |-> Str(r.minuteRounding)]

---------------------------------------------------------------------------
(* formatCompactDuration *)

MIN == 60
HOUR == 60 * MIN
DAY == 24 * HOUR
MONTH(dpm) == dpm * DAY
YEAR(dpm, mpy) == mpy * MONTH(dpm)

SECS(u, dpm, mpy) ==
    CASE u = "minute" -> MIN
      [] u = "hour"   -> HOUR
      [] u = "day"    -> DAY
      [] u = "month"  -> MONTH(dpm)
      [] u = "year"   -> YEAR(dpm, mpy)

ORDER == <<"minute", "hour", "day", "month", "year">>

\* ORDER.indexOf(u), counted from 1
IndexOf(u) == CHOOSE i \in 1..Len(ORDER) : ORDER[i] = u

\* secVal >= BASES[u]; BASES.year is Number.POSITIVE_INFINITY, which nothing reaches
ReachesBase(secVal, u, dpm, mpy) ==
    CASE u = "minute" -> secVal >= 60
      [] u = "hour"   -> secVal >= 24
      [] u = "day"    -> secVal >= dpm
      [] u = "month"  -> secVal >= mpy
      [] u = "year"   -> FALSE

Part(value, unit) == [value |-> value, unit |-> unit]

\* `${p.value}${delimiter}${label(p.unit, p.value, style)}`
Render(p, delimiter, style) ==
    ToString(p.value) \o delimiter \o label(p.unit, p.value, style)

\* parts.map(render).join(delimiter)
RECURSIVE Join(_, _, _)
Join(parts, delimiter, style) ==
    IF parts = <<>> THEN ""
    ELSE IF Len(parts) = 1 THEN Render(parts[1], delimiter, style)
    ELSE Render(parts[1], delimiter, style) \o delimiter \o Join(Tail(parts), delimiter, style)

\* What a branch returns: the string, and the segments (value, unit) it renders.
\* The locals of the hour-and-above branch, as they stand before the carry.
Locals(primary, primVal, remainder, secondary, secVal) ==
    [primary |-> primary, primVal |-> primVal, remainder |-> remainder,
     secondary |-> secondary, secVal |-> secVal]

NoLocals == Locals("", 0, 0, "", 0)

Out(branch, parts, loc, cfg) ==
    [branch |-> branch, parts |-> parts, loc |-> loc,
     text |-> Join(parts, cfg.delimiter, cfg.style)]

\* Zero handling with the two tests in the other order: minOneMinute first.
ZeroCaseMinuteFirst(cfg) ==
    IF cfg.minOneMinute THEN Out("zero", <<Part(1, "minute")>>, NoLocals, cfg)
    ELSE IF cfg.allowZero THEN Out("zero", <<>>, NoLocals, cfg)
    ELSE Out("zero", <<Part(0, "second")>>, NoLocals, cfg)

\* Zero handling (seconds === 0)
ZeroCase(cfg) ==
    IF cfg.allowZero THEN Out("zero", <<>>, NoLocals, cfg)
    ELSE IF cfg.minOneMinute THEN Out("zero", <<Part(1, "minute")>>, NoLocals, cfg)
    ELSE Out("zero", <<Part(0, "second")>>, NoLocals, cfg)

\* Sub-minute with minOneMinute alone deciding, roundSubHourToMinutes not read.
SubMinuteAlways(seconds, cfg) ==
    IF cfg.minOneMinute
    THEN Out("subminute", <<Part(1, "minute")>>, NoLocals, cfg)
    ELSE Out("subminute", <<Part(seconds, "second")>>, NoLocals, cfg)

\* Sub-minute (0 < seconds < MIN)
SubMinute(seconds, cfg) ==
    IF cfg.minOneMinute /\ cfg.roundSubHourToMinutes
    THEN Out("subminute", <<Part(1, "minute")>>, NoLocals, cfg)
    ELSE Out("subminute", <<Part(seconds, "second")>>, NoLocals, cfg)

\* Math.floor, Math.round (half up) and Math.ceil of seconds / MIN
RoundMinutes(seconds, minuteRounding) ==
    CASE minuteRounding = "floor"   -> seconds \div MIN
      [] minuteRounding = "nearest" -> (2 * seconds + MIN) \div (2 * MIN)
      [] OTHER                      -> (seconds + MIN - 1) \div MIN

\* < 1 hour (MIN <= seconds < HOUR)
SubHour(seconds, cfg) ==
    IF cfg.roundSubHourToMinutes
    THEN LET safe == Max(RoundMinutes(seconds, cfg.minuteRounding), 1)
         IN  Out("subhour", <<Part(safe, "minute")>>, NoLocals, cfg)
    ELSE LET mins == seconds \div MIN
             secs == seconds % MIN
         IN  IF mins = 0 THEN Out("subhour", <<Part(secs, "second")>>, NoLocals, cfg)
             ELSE IF cfg.maxUnits = 1 THEN Out("subhour", <<Part(mins, "minute")>>, NoLocals, cfg)
             ELSE Out("subhour", <<Part(mins, "minute"), Part(secs, "second")>>, NoLocals, cfg)

\* The loop over ORDER from its last index down: the first unit, minute
\* skipped, whose width the duration reaches; "hour" when none does.
RECURSIVE ScanPrimary(_, _, _, _)
ScanPrimary(i, seconds, dpm, mpy) ==
    IF i < 1 THEN "hour"
    ELSE IF ORDER[i] = "minute" THEN ScanPrimary(i - 1, seconds, dpm, mpy)
    ELSE IF seconds >= SECS(ORDER[i], dpm, mpy) THEN ORDER[i]
    ELSE ScanPrimary(i - 1, seconds, dpm, mpy)

\* Math.floor in the place of Math.ceil
FloorDiv(remainder, width) == remainder \div width

\* Math.ceil(remainder / width)
CeilDiv(remainder, width) == (remainder + width - 1) \div width

\* The carry with > in the place of >=
CarryAbove(primVal, secVal, secondary, dpm, mpy) ==
    IF ReachesBase(secVal - 1, secondary, dpm, mpy)
    THEN [primVal |-> primVal + 1, secVal |-> 0]
    ELSE [primVal |-> primVal, secVal |-> secVal]

\* if (secVal >= BASES[secondary]) { primVal += 1; secVal = 0; }
Carry(primVal, secVal, secondary, dpm, mpy) ==
    IF ReachesBase(secVal, secondary, dpm, mpy)
    THEN [primVal |-> primVal + 1, secVal |-> 0]
    ELSE [primVal |-> primVal, secVal |-> secVal]

\* The secondary segment pushed without the test of maxUnits
BuildPartsAnyMax(primVal, primary, secVal, secondary, maxUnits) ==
    IF secVal > 0
    THEN <<Part(primVal, primary), Part(secVal, secondary)>>
    ELSE <<Part(primVal, primary)>>

\* The secondary segment pushed without the test of secVal > 0
BuildPartsWithZero(primVal, primary, secVal, secondary, maxUnits) ==
    IF maxUnits > 1
    THEN <<Part(primVal, primary), Part(secVal, secondary)>>
    ELSE <<Part(primVal, primary)>>

\* parts = [primary]; if (maxUnits > 1 && secVal > 0) parts.push(secondary)
BuildParts(primVal, primary, secVal, secondary, maxUnits) ==
    IF maxUnits > 1 /\ secVal > 0
    THEN <<Part(primVal, primary), Part(secVal, secondary)>>
    ELSE <<Part(primVal, primary)>>

\* >= 1 hour: two-unit format with carry
HourPlus(seconds, cfg) ==
    LET dpm == cfg.calDaysPerMonth
        mpy == cfg.calMonthsPerYear
        primary == ScanPrimary(Len(ORDER), seconds, dpm, mpy)
        primSecs == SECS(primary, dpm, mpy)
        primVal == seconds \div primSecs
        remainder == seconds - primVal * primSecs
        nextIndex == IndexOf(primary) - 1
        secondary == ORDER[Max(1, nextIndex)]
        secVal == CeilDiv(remainder, SECS(secondary, dpm, mpy))
        c == Carry(primVal, secVal, secondary, dpm, mpy)
    IN  Out("hourplus",
            BuildParts(c.primVal, primary, c.secVal, secondary, cfg.maxUnits),
            Locals(primary, primVal, remainder, secondary, secVal), cfg)

\* The branches of formatCompactDuration on the whole seconds.
Dispatch(seconds, cfg) ==
    IF seconds = 0 THEN ZeroCase(cfg)
    ELSE IF seconds < MIN THEN SubMinute(seconds, cfg)
    ELSE IF seconds < HOUR THEN SubHour(seconds, cfg)
    ELSE HourPlus(seconds, cfg)

\* Math.max(0, toInt(input, 0)), then to whole seconds
ToSeconds(rawInt, inputUnit) ==
    LET raw == Max(0, rawInt)
    IN  IF inputUnit = "ms" THEN raw \div 1000 ELSE raw

Thrown ==
    [thrown |-> TRUE, seconds |-> 0, branch |-> "", parts |-> <<>>,
     loc |-> NoLocals, text |-> ""]

formatCompactDuration(in, options) ==
    LET cfg == normalizeOptions(options)
        r == toInt(in, 0)
    IN  IF cfg.thrown \/ r.thrown THEN Thrown
        ELSE LET seconds == ToSeconds(r.val, cfg.inputUnit)
                 o == Dispatch(seconds, cfg)
             IN  [thrown |-> FALSE, seconds |-> seconds, branch |-> o.branch,
                  parts |-> o.parts, loc |-> o.loc, text |-> o.text]

---------------------------------------------------------------------------
(* The inputs of the runs *)

MaxDays == 2
MaxMonths == 2
MaxPrim == 2
MaxOffset == 1
MaxMsSeconds == 2000000

Bools == {Bool(TRUE), Bool(FALSE)}

\* Calendars of well-typed options: none (the defaults 30 and 12) and small ones.
Calendars ==
    {NoCalendar} \cup
    {Calendar("object", Num(d), Num(m)) : d \in 1..MaxDays, m \in 1..MaxMonths}

\* Well-typed option objects, every field present.
ValidOptions ==
    [t : {"object"},
     inputUnit : {Str("ms"), Str("sec")},
     maxUnits : {Num(1), Num(2)},
     minOneMinute : Bools,
     style : {Str("short"), Str("long")},
     delimiter : {Str(" "), Str("-")},
     allowZero : Bools,
     calendar : Calendars,
     roundSubHourToMinutes : Bools,
     minuteRounding : {Str("ceil"), Str("floor"), Str("nearest")}]

Units == {ORDER[i] : i \in 1..Len(ORDER)}

\* The unit below u, with the second below the minute; widths and counts per
\* next-larger unit over the six of them.
Below(u) == IF u = "minute" THEN "second" ELSE ORDER[IndexOf(u) - 1]

Width(u, dpm, mpy) == IF u = "second" THEN 1 ELSE SECS(u, dpm, mpy)

Count(u, dpm, mpy) ==
    CASE u = "second" -> 60
      [] u = "minute" -> 60
      [] u = "hour"   -> 24
      [] u = "day"    -> dpm
      [] u = "month"  -> mpy

\* Whole-second durations around the multiples of every unit: k units plus j
\* of the unit below, give or take MaxOffset seconds, with k up to MaxPrim or
\* one short of the next unit, and j none, one, half or one short of a unit.
Durations(dpm, mpy) ==
    {0} \cup
    UNION { LET b == Below(u)
                ks == (0..MaxPrim) \cup
                      (IF u = "year" THEN {} ELSE {Count(u, dpm, mpy) - 1})
                js == {0, 1, Count(b, dpm, mpy) \div 2, Count(b, dpm, mpy) - 1}
            IN  { x \in { k * Width(u, dpm, mpy) + j * Width(b, dpm, mpy) + e :
                             k \in ks, j \in js, e \in (-MaxOffset)..MaxOffset } : x >= 0 }
          : u \in Units }

\* The numeric inputs for an options object: the durations in its input unit.
NumericInputs(o) ==
    LET cfg == normalizeOptions(o)
        ds == Durations(cfg.calDaysPerMonth, cfg.calMonthsPerYear)
    IN  IF cfg.inputUnit = "sec" THEN { Num(x) : x \in ds }
        ELSE { Num(1000 * x + f) : x \in { y \in ds : y <= MaxMsSeconds }, f \in {0, 999} }

NoNorm ==
    [thrown |-> FALSE, inputUnit |-> "", maxUnits |-> 0, minOneMinute |-> FALSE,
     style |-> "", delimiter |-> "", allowZero |-> FALSE, calDaysPerMonth |-> 0,
     calMonthsPerYear |-> 0, roundSubHourToMinutes |-> FALSE, minuteRounding |-> ""]

NoRet ==
    [thrown |-> FALSE, seconds |-> 0, branch |-> "", parts |-> <<>>,
     loc |-> NoLocals, text |-> ""]

---------------------------------------------------------------------------
(* The calls *)

Init ==
    /\ pc = "ready"
    /\ op = "format"
    /\ opts \in ValidOptions
    /\ input \in NumericInputs(opts)
    /\ norm = NoNorm
    /\ ret = NoRet
    /\ norm2 = NoNorm

\* formatCompactDuration(input, opts)
Format ==
    /\ pc = "ready"
    /\ op = "format"
    /\ pc' = "done"
    /\ norm' = normalizeOptions(opts)
    /\ ret' = formatCompactDuration(input, opts)
    /\ UNCHANGED <<op, input, opts, norm2>>

\* normalizeOptions(opts)
Normalize ==
    /\ pc = "ready"
    /\ op = "normalize"
    /\ pc' = "done"
    /\ norm' = normalizeOptions(opts)
    /\ UNCHANGED <<op, input, opts, ret, norm2>>

\* normalizeOptions(normalizeOptions(opts)), when the first call returned
Renormalize ==
    /\ pc = "done"
    /\ op = "normalize"
    /\ ~norm.thrown
    /\ pc' = "again"
    /\ norm2' = normalizeOptions(AsOptions(norm))
    /\ UNCHANGED <<op, input, opts, norm, ret>>

Next == Format

Spec == Init /\ [][Next]_vars

---------------------------------------------------------------------------
(* The calls on values of every kind *)

\* Values of every typeof kind, as a caller without types can pass them.
JSValues ==
    {Undefined, Null, Bool(TRUE), Bool(FALSE), Num(0), Num(-3), Num(31), Frac(5, 2),
     Frac(-1, 2), NaN, PosInf, NegInf, Str(""), Str("31"), Str("abc"), Obj, Sym}

JSInputs == JSValues \cup {Num(5000), Frac(-7323001, 2), Frac(7323001, 2), Str("5000")}

\* What calendar.daysPerMonth and calendar.monthsPerYear are drawn from.
CalendarValues ==
    {Undefined, Null, Bool(TRUE), Num(0), Num(-3), Num(2), Num(31), Frac(5, 2),
     NaN, PosInf, Str("31"), Str("abc"), Obj, Sym}

\* A calendar that is absent, null, a number, or an object with any two fields.
AnyCalendars ==
    {NoCalendar, Calendar("null", Undefined, Undefined),
     Calendar("number", Undefined, Undefined)} \cup
    {Calendar("object", d, m) : d \in CalendarValues, m \in CalendarValues}

\* Option objects whose fields are each valid (and not the default) or wrong-typed.
MixedOptions ==
    [t : {"object"},
     inputUnit : {Str("sec"), Num(1)},
     maxUnits : {Num(1), Str("1")},
     minOneMinute : {Bool(FALSE), Str("false")},
     style : {Str("long"), Null},
     delimiter : {Str("-"), Num(0)},
     allowZero : {Bool(TRUE), Num(1)},
     calendar : AnyCalendars,
     roundSubHourToMinutes : {Bool(FALSE), Null},
     minuteRounding : {Str("nearest"), Str("up")}]

UndefinedOptions == [EmptyOptions EXCEPT !.t = "undefined"]
NullOptions == [EmptyOptions EXCEPT !.t = "null"]

\* Absent, null, empty and partial options, and options with every field wrong-typed.
LooseOptions ==
    {UndefinedOptions, NullOptions} \cup
    {[o EXCEPT !.calendar = c] :
        o \in {EmptyOptions,
               [EmptyOptions EXCEPT !.inputUnit = Str("sec")],
               [EmptyOptions EXCEPT !.inputUnit = Str("sec"), !.minOneMinute = Bool(FALSE),
                                    !.roundSubHourToMinutes = Bool(FALSE)],
               [EmptyOptions EXCEPT !.inputUnit = Num(1), !.maxUnits = Str("1"),
                                    !.minOneMinute = Str("false"), !.style = Null,
                                    !.delimiter = Num(0), !.allowZero = Num(1),
                                    !.roundSubHourToMinutes = Null,
                                    !.minuteRounding = Str("up")]},
        c \in AnyCalendars}

InitCoerce ==
    /\ pc = "ready"
    /\ \/ op = "format" /\ input \in JSInputs /\ opts \in LooseOptions
       \/ op = "normalize" /\ input = Undefined
          /\ opts \in {UndefinedOptions, NullOptions} \cup MixedOptions
    /\ norm = NoNorm
    /\ ret = NoRet
    /\ norm2 = NoNorm

NextCoerce == Format \/ Normalize \/ Renormalize

SpecCoerce == InitCoerce /\ [][NextCoerce]_vars

---------------------------------------------------------------------------
(* The statements checked *)

\* A call of formatCompactDuration has returned a string.
Returned == pc = "done" /\ op = "format" /\ ~ret.thrown

\* The calendar is the default one: 30 days per month, 12 months per year.
DefaultCalendar == norm.calDaysPerMonth = 30 /\ norm.calMonthsPerYear = 12

\* The least k with k * width >= remainder: remainder / width rounded up.
RoundedUp(remainder, width) ==
    (remainder \div width) + (IF remainder % width = 0 THEN 0 ELSE 1)

\* The primary unit of a duration of an hour or more: the highest of hour,
\* day, month and year that fits in it.
PrimaryOf(seconds, dpm, mpy) ==
    LET fits == {u \in Units \ {"minute"} : Width(u, dpm, mpy) <= seconds}
    IN  CHOOSE u \in fits : \A v \in fits : IndexOf(v) <= IndexOf(u)

\* The segments the statement of C1 asks for.
ExpectedParts(seconds, dpm, mpy, maxUnits) ==
    LET primary == PrimaryOf(seconds, dpm, mpy)
        secondary == Below(primary)
        primVal == seconds \div Width(primary, dpm, mpy)
        remainder == seconds - primVal * Width(primary, dpm, mpy)
        secVal == RoundedUp(remainder, Width(secondary, dpm, mpy))
    IN  IF secVal >= Count(secondary, dpm, mpy) THEN <<Part(primVal + 1, primary)>>
        ELSE IF maxUnits > 1 /\ secVal > 0
             THEN <<Part(primVal, primary), Part(secVal, secondary)>>
             ELSE <<Part(primVal, primary)>>

\* With inputUnit sec and every other option at its default rendering
\* (short style, one space, two units, default calendar), the input is x.
DefaultSec(x) ==
    /\ input = Num(x) /\ norm.inputUnit = "sec" /\ norm.style = "short"
    /\ norm.delimiter = " " /\ norm.maxUnits = 2 /\ DefaultCalendar

\* C1: for a duration of an hour or more the output renders floor(seconds /
\* width(primary)) of the primary unit and the remainder rounded up in the
\* unit below; when that reaches the unit's base the primary value is one
\* more and the secondary segment is omitted.  3661 s is "1 hr 2 mins",
\* 3600 s is "1 hr" and 90000 s is "1 day 1 hr".
C1_RoundUpAndCarry ==
    (Returned /\ ret.seconds >= HOUR) =>
        /\ ret.parts = ExpectedParts(ret.seconds, norm.calDaysPerMonth,
                                     norm.calMonthsPerYear, norm.maxUnits)
        /\ DefaultSec(3661) => ret.text = "1 hr 2 mins"
        /\ DefaultSec(3600) => ret.text = "1 hr"
        /\ DefaultSec(90000) => ret.text = "1 day 1 hr"

\* C1 witness: a day-primary duration whose hour remainder rounds up to 24 has
\* been rendered as one more day and nothing else.
C1_Witness ==
    /\ Returned /\ ret.loc.primary = "day" /\ ret.loc.secVal = 24
    /\ ret.parts = <<Part(ret.loc.primVal + 1, "day")>>

\* C2 as stated: every output has one or two segments, and no more than maxUnits.
C2_Original ==
    Returned => Len(ret.parts) \in 1..2 /\ Len(ret.parts) <= norm.maxUnits

\* C2 as amended: a zero duration with allowZero is the empty string, with no
\* segment; every other output has one or two segments and no more than
\* maxUnits, so exactly one when maxUnits is 1.
C2_SegmentCount ==
    Returned =>
        IF ret.seconds = 0 /\ norm.allowZero
        THEN ret.parts = <<>> /\ ret.text = ""
        ELSE Len(ret.parts) \in 1..2 /\ Len(ret.parts) <= norm.maxUnits

\* C2 witness: with maxUnits 1 a duration with a non-zero remainder that does
\* not carry has been rendered as one segment.
C2_Witness ==
    /\ Returned /\ norm.maxUnits = 1 /\ ret.branch = "hourplus"
    /\ ret.loc.secVal > 0 /\ ret.loc.secVal < Count(ret.loc.secondary, 30, 12)
    /\ Len(ret.parts) = 1

\* "1" + delimiter + the singular minute label
OneMinute == "1" \o norm.delimiter \o (IF norm.style = "long" THEN "minute" ELSE "min")

C4_ZeroOutput ==
    (Returned /\ ret.seconds = 0) =>
        ret.text = (IF norm.allowZero THEN ""
                    ELSE IF norm.minOneMinute THEN OneMinute
                    ELSE "0" \o norm.delimiter \o
                         (IF norm.style = "long" THEN "seconds" ELSE "sec"))

\* C4 witness: 999 ms, without allowZero and minOneMinute, in long style with
\* a calendar and a rounding that are not the defaults.
C4_Witness ==
    /\ Returned /\ input = Num(999) /\ norm.inputUnit = "ms" /\ ret.seconds = 0
    /\ ~norm.allowZero /\ ~norm.minOneMinute /\ norm.style = "long"
    /\ ~DefaultCalendar /\ norm.minuteRounding = "floor" /\ ret.text = "0-seconds"

\* The input as the statement of C5 sanitizes it: a symbol, and every value
\* whose conversion to a number is not finite, is 0; a negative value is 0; a
\* fraction is truncated.
Sanitized(v) ==
    LET x == IF v.t = "symbol" THEN NaN ELSE ToNumber(v).val
    IN  IF x.c = "finite" /\ x.n >= 0 THEN Num(x.n \div x.d) ELSE Num(0)

\* C5: for every input and options value the call returns a string, never
\* raises, and returns what it returns for the sanitized input.
C5_Total ==
    (pc = "done" /\ op = "format") =>
        /\ ~ret.thrown
        /\ ret.text = formatCompactDuration(Sanitized(input), opts).text

\* The value supplied as a calendar field: the field of an object calendar of
\* an object options value, and absent otherwise.
Supplied(field) ==
    IF opts.t = "object" /\ opts.calendar.t = "object" THEN opts.calendar[field]
    ELSE Undefined

\* The normalized calendar field as the statement of C6 gives it: the default
\* for a value that is absent, not numeric or not finite, and otherwise the
\* value truncated and raised to 1.
Clamped(v, default) ==
    LET x == IF v.t = "number" THEN v
             ELSE IF v.t = "string" /\ v.s \in NumericStrings \ {""}
                  THEN StringToNumber(v.s)
                  ELSE NaN
    IN  IF x.c = "finite" THEN Max(1, Trunc(x.n, x.d)) ELSE default

\* C6: normalizeOptions gives each calendar field the default (30, 12) when
\* the value is absent, not numeric or not finite, and otherwise the value
\* truncated toward zero and raised to 1.
C6_CalendarFields ==
    (pc = "done" /\ op = "normalize") =>
        /\ ~norm.thrown
        /\ norm.calDaysPerMonth = Clamped(Supplied("daysPerMonth"), 30)
        /\ norm.calMonthsPerYear = Clamped(Supplied("monthsPerYear"), 12)

\* C7: normalizing the result of normalizeOptions gives the same
\* configuration in every field.
C7_Idempotent == pc = "again" => norm2 = norm

\* C8 as stated: in an output of two segments the second value is above 0.
C8_Original == (Returned /\ Len(ret.parts) = 2) => ret.parts[2].value > 0

\* C8 as amended: for a duration of an hour or more the second segment of an
\* output of two is above 0; a second segment of value 0 is rendered only for
\* a duration of whole minutes under an hour with roundSubHourToMinutes false
\* and maxUnits 2, as "0 sec" (or "0 seconds").
C8_NoZeroSecondary ==
    (Returned /\ Len(ret.parts) = 2) =>
        /\ ret.seconds >= HOUR => ret.parts[2].value > 0
        /\ ret.parts[2].value = 0 =>
              /\ ret.seconds >= MIN /\ ret.seconds < HOUR /\ ret.seconds % MIN = 0
              /\ ~norm.roundSubHourToMinutes /\ norm.maxUnits = 2
              /\ ret.parts[2].unit = "second"

\* C8 witness: with maxUnits 2 a whole number of primary units of an hour or
\* more has been rendered as one segment.
C8_Witness ==
    /\ Returned /\ norm.maxUnits = 2 /\ ret.branch = "hourplus"
    /\ ret.loc.remainder = 0 /\ Len(ret.parts) = 1

\* C9: every rendered minute value is below 60, hour value below 24, day value
\* below daysPerMonth and month value below monthsPerYear.
C9_BelowBase ==
    Returned =>
        \A i \in 1..Len(ret.parts) :
            ret.parts[i].unit \in {"minute", "hour", "day", "month"} =>
                ret.parts[i].value <
                    Count(ret.parts[i].unit, norm.calDaysPerMonth, norm.calMonthsPerYear)

\* The duration the rendered segments denote.
Denoted(parts, dpm, mpy) ==
    parts[1].value * Width(parts[1].unit, dpm, mpy) +
    (IF Len(parts) = 2 THEN parts[2].value * Width(parts[2].unit, dpm, mpy) ELSE 0)

\* C10: with maxUnits 2 the segments of a duration of an hour or more denote
\* a duration D with seconds <= D < seconds + width(secondary); before the
\* carry the secondary value is at most its base, and the carry happens
\* exactly when the rounded-up remainder is one whole primary unit.
C10_NeverUnderstates ==
    (Returned /\ ret.seconds >= HOUR /\ norm.maxUnits = 2) =>
        LET dpm == norm.calDaysPerMonth
            mpy == norm.calMonthsPerYear
            D == Denoted(ret.parts, dpm, mpy)
            secondary == Below(ret.parts[1].unit)
            ws == Width(secondary, dpm, mpy)
            wp == Width(ret.parts[1].unit, dpm, mpy)
        IN  /\ ret.seconds <= D
            /\ D < ret.seconds + ws
            /\ ret.loc.secVal <= Count(secondary, dpm, mpy)
            /\ (ret.parts = <<Part(ret.loc.primVal + 1, ret.loc.primary)>>)
                   <=> (RoundedUp(ret.loc.remainder, ws) * ws = wp)

\* C10 witness: a month-primary duration has been rendered as two segments
\* that overstate it.
C10_Witness ==
    /\ Returned /\ norm.maxUnits = 2 /\ Len(ret.parts) = 2
    /\ ret.parts[1].unit = "month"
    /\ Denoted(ret.parts, norm.calDaysPerMonth, norm.calMonthsPerYear) > ret.seconds

=============================================================================
